---- MODULE Spec2Model ----
(***************************************************************************)
(* Model of controllers/configs.go: building a Talos administrative client *)
(* for a set of control-plane machines.                                    *)
(*                                                                         *)
(*   talosconfigForMachines          direct mode, or dispatch to           *)
(*   talosconfigFromWorkloadCluster  indirect mode (workload-cluster nodes)*)
(*   kubeconfigForCluster            workload-cluster client + dialer      *)
(*   kubernetesClient.Close          release of the dialer                 *)
(*                                                                         *)
(* A resolution is split at its loop iterations: one action per entry,     *)
(* per machine processed, and per final client construction.  Every call   *)
(* made to the management-cluster store, to the workload cluster or to a   *)
(* library constructor is appended to `calls`.                             *)
(***************************************************************************)
EXTENDS Integers, Sequences, FiniteSets, TLC

(* ---------------------------- bounds ---------------------------------- *)
MaxMachines == 2
MaxCfgs == 2
MaxDialers == 2

(* ------------------------- program literals --------------------------- *)
MachineExternalIP == "ExternalIP"
MachineInternalIP == "InternalIP"
NodeExternalIP == "ExternalIP"
NodeInternalIP == "InternalIP"
MachineKind == "Machine"
KubeconfigSuffix == "-kubeconfig"
ClusterNameLabel == "cluster.x-k8s.io/cluster-name"

(* ------------------------- values and errors -------------------------- *)
Addr(type, address) == [Type |-> type, Address |-> address]
Ref(kind, name) == [Kind |-> kind, Name |-> name]
CallRec(op, arg) == [op |-> op, arg |-> arg]

NoResult == [status |-> "none", err |-> "", subject |-> "", endpoints |-> <<>>, config |-> <<>>]
Err(kind, subject) ==
  [status |-> "err", err |-> kind, subject |-> subject, endpoints |-> <<>>, config |-> <<>>]
ClientOk(endpoints, config) ==
  [status |-> "ok", err |-> "", subject |-> "", endpoints |-> endpoints, config |-> config]

(* --------------------------- input domains ---------------------------- *)
(* TalosControlPlane objects: namespace, labels, Spec.ControlPlaneConfig.InitConfig *)
ZeroInitConfig == [GenerateType |-> "", Data |-> ""]
TcpPool ==
  { [Namespace |-> "ns1", Labels |-> (ClusterNameLabel :> "demo"), InitConfig |-> ZeroInitConfig],
    [Namespace |-> "ns1", Labels |-> (ClusterNameLabel :> "demo"),
     InitConfig |-> [GenerateType |-> "init", Data |-> ""]],
    [Namespace |-> "ns1", Labels |-> (ClusterNameLabel :> "demo"),
     InitConfig |-> [GenerateType |-> "", Data |-> "version: v1alpha1"]],
    [Namespace |-> "ns1", Labels |-> (ClusterNameLabel :> "prod"),
     InitConfig |-> [GenerateType |-> "init", Data |-> ""]],
    [Namespace |-> "ns1", Labels |-> (ClusterNameLabel :> "dev"),
     InitConfig |-> [GenerateType |-> "init", Data |-> ""]],
    [Namespace |-> "ns2", Labels |-> (ClusterNameLabel :> "demo"),
     InitConfig |-> [GenerateType |-> "init", Data |-> ""]],
    [Namespace |-> "ns1", Labels |-> ("app" :> "talos"),
     InitConfig |-> [GenerateType |-> "init", Data |-> ""]] }
IdleTcp == [Namespace |-> "", Labels |-> ("app" :> ""), InitConfig |-> ZeroInitConfig]

(* Machine objects: Status.NodeRef is <<>> (nil) or <<node name>> *)
MachinePool ==
  { [Name |-> "m1", Namespace |-> "ns1", NodeRef |-> <<"n1">>,
     Addresses |-> <<Addr("ExternalIP", "10.0.0.1"), Addr("Hostname", "host-1"),
                     Addr("InternalIP", "10.0.0.2")>>],
    [Name |-> "m2", Namespace |-> "ns1", NodeRef |-> <<"n2">>,
     Addresses |-> <<Addr("InternalIP", "10.0.0.2")>>],
    [Name |-> "m3", Namespace |-> "ns1", NodeRef |-> <<"n3">>,
     Addresses |-> <<Addr("Hostname", "host-3"), Addr("InternalDNS", "m3.local")>>],
    [Name |-> "m4", Namespace |-> "ns2", NodeRef |-> <<>>,
     Addresses |-> <<Addr("InternalIP", "10.0.0.4")>>],
    [Name |-> "m5", Namespace |-> "ns1", NodeRef |-> <<"n9">>,
     Addresses |-> <<>>] }

SeqsUpTo(S, n) == UNION { [1..k -> S] : k \in 0..n }
Injective(s) == \A a, b \in 1..Len(s) : s[a] = s[b] => a = b
MachineLists == SeqsUpTo(MachinePool, MaxMachines)

(* Node objects of the workload cluster *)
WorkloadNodes ==
  { [Name |-> "n1",
     Addresses |-> <<Addr("InternalIP", "10.0.0.2"), Addr("Hostname", "host-1"),
                     Addr("ExternalIP", "10.0.0.1")>>],
    [Name |-> "n2", Addresses |-> <<Addr("InternalIP", "10.0.0.2")>>],
    [Name |-> "n3", Addresses |-> <<Addr("Hostname", "host-3")>>] }

(* Secrets of the management cluster *)
Secrets ==
  { [Namespace |-> "ns1", Name |-> "demo-kubeconfig", Data |-> [value |-> "server: https://demo:6443"]],
    [Namespace |-> "ns1", Name |-> "demo", Data |-> [value |-> "server: https://other:6443"]],
    [Namespace |-> "ns1", Name |-> "prod-kubeconfig", Data |-> [value |-> "not a kubeconfig"]],
    [Namespace |-> "ns1", Name |-> "dev-kubeconfig", Data |-> [value |-> "server: dev:port"]],
    [Namespace |-> "ns3", Name |-> "demo-kubeconfig", Data |-> [value |-> "server: https://demo3:6443"]] }

(* TalosConfig objects of the management cluster *)
TalosConfigPool ==
  { [Name |-> "r1", Namespace |-> "ns1", TalosConfig |-> "context: A",
     OwnerReferences |-> <<Ref("Machine", "m1")>>],
    [Name |-> "r2", Namespace |-> "ns1", TalosConfig |-> "context: B",
     OwnerReferences |-> <<Ref("Cluster", "demo"), Ref("Machine", "m1")>>],
    [Name |-> "r3", Namespace |-> "ns1", TalosConfig |-> "context: C",
     OwnerReferences |-> <<Ref("Machine", "m12"), Ref("Node", "m1"), Ref("Machine", "m")>>],
    [Name |-> "r4", Namespace |-> "ns1", TalosConfig |-> "context: D",
     OwnerReferences |-> <<Ref("Machine", "m2")>>],
    [Name |-> "r5", Namespace |-> "ns2", TalosConfig |-> "context: E",
     OwnerReferences |-> <<Ref("Machine", "m1"), Ref("Machine", "m4")>>],
    [Name |-> "r6", Namespace |-> "ns1", TalosConfig |-> "{not yaml",
     OwnerReferences |-> <<Ref("Machine", "m1")>>] }
TalosConfigStores == { s \in SeqsUpTo(TalosConfigPool, MaxCfgs) : Injective(s) }

VARIABLES
  pc,          \* position of the resolution
  tcp,         \* argument: the TalosControlPlane
  machines,    \* argument: the machines
  cfgStore,    \* TalosConfig objects the store held when the resolution listed them
  i,           \* index of the machine the loop is at
  addrList,    \* local addrList
  t,           \* local t: <<>> (nil) or <<parsed talosconfig>>
  found,       \* the record found points to when it is parsed: <<>> or <<record>>
  clientset,   \* local clientset: <<>> or <<dialer id>>
  calls,       \* calls issued by the resolution so far
  result,      \* what the resolution returned
  dialers,     \* every dialer created so far: "open" | "closed"
  callerHeld   \* client held by another caller of kubeconfigForCluster: <<>> or <<id>>

vars == <<pc, tcp, machines, cfgStore, i, addrList, t, found, clientset,
          calls, result, dialers, callerHeld>>


(* ====================== library and store calls ======================= *)

(* mutant of IsZero: only the Data field is looked at *)
IsZeroDataOnly(v) == v.Data = ""

(* reflect.ValueOf(x).IsZero() on the InitConfig struct *)
IsZero(v) == v.GenerateType = "" /\ v.Data = ""

(* tcp.GetLabels()[key]: a missing key reads as the empty string *)
Label(labels, key) == IF key \in DOMAIN labels THEN labels[key] ELSE ""

(* clientcmd.RESTConfigFromKubeConfig: <<>> on malformed bytes, else <<rest config>> *)
RESTConfigFromKubeConfig(bytes) ==
  CASE bytes = "server: https://demo:6443" -> <<[Host |-> "https://demo:6443", ValidURL |-> TRUE]>>
    [] bytes = "server: https://other:6443" -> <<[Host |-> "https://other:6443", ValidURL |-> TRUE]>>
    [] bytes = "server: https://demo3:6443" -> <<[Host |-> "https://demo3:6443", ValidURL |-> TRUE]>>
    [] bytes = "server: dev:port" -> <<[Host |-> "dev:port", ValidURL |-> FALSE]>>
    [] OTHER -> <<>>

(* kubernetes.NewForConfig: fails on a host that is no URL *)
NewForConfigOk(config) == config.ValidURL

(* talosconfig.FromString: <<>> on malformed YAML, else <<config>> *)
FromString(payload) ==
  CASE payload = "context: A" -> <<[Context |-> "A"]>>
    [] payload = "context: B" -> <<[Context |-> "B"]>>
    [] payload = "context: C" -> <<[Context |-> "C"]>>
    [] payload = "context: D" -> <<[Context |-> "D"]>>
    [] payload = "context: E" -> <<[Context |-> "E"]>>
    [] OTHER -> <<>>

(* mutant of GetSecret: the namespace of the key is not used *)
GetSecretAnyNamespace(namespace, name) ==
  { s \in Secrets : s.Name = name }

(* r.Client.Get of a secret by namespaced name: the matching secrets *)
GetSecret(namespace, name) ==
  { s \in Secrets : s.Namespace = namespace /\ s.Name = name }

(* clientset.CoreV1().Nodes().Get by name: the matching nodes *)
GetNode(name) == { n \in WorkloadNodes : n.Name = name }

(* r.Client.List(&cfgs, client.InNamespace(ns)) *)
ListTalosConfigs(store, namespace) ==
  SelectSeq(store, LAMBDA c : c.Namespace = namespace)

(* ========================= kubeconfigForCluster ======================= *)
SecretKey(cluster) == cluster.Namespace \o "/" \o cluster.Name \o KubeconfigSuffix

(* Outcome of kubeconfigForCluster(ctx, cluster); getOk is whether the store *)
(* answered the Get at all.  dialer: a dialer was created (line 66).         *)
KubeconfigForCluster(cluster, getOk) ==
  LET get == <<CallRec("SecretGet", SecretKey(cluster))>>
      hit == GetSecret(cluster.Namespace, cluster.Name \o KubeconfigSuffix)
  IN IF ~getOk
       THEN [calls |-> get, err |-> <<Err("IOError", SecretKey(cluster))>>, dialer |-> FALSE]
     ELSE IF hit = {}
       THEN [calls |-> get, err |-> <<Err("NotFound", SecretKey(cluster))>>, dialer |-> FALSE]
     ELSE LET secret == CHOOSE s \in hit : TRUE
              parse == get \o <<CallRec("RESTConfigFromKubeConfig", secret.Data["value"])>>
              config == RESTConfigFromKubeConfig(secret.Data["value"])
          IN IF config = <<>>
               THEN [calls |-> parse, err |-> <<Err("ParseError", SecretKey(cluster))>>,
                     dialer |-> FALSE]
             ELSE LET build == parse \o <<CallRec("newDialer", ""),
                                          CallRec("NewForConfig", config[1].Host)>>
                  IN IF ~NewForConfigOk(config[1])
                       THEN [calls |-> build, err |-> <<Err("ClientError", config[1].Host)>>,
                             dialer |-> TRUE]
                       ELSE [calls |-> build, err |-> <<>>, dialer |-> TRUE]

(* kubernetesClient.Close: k.dialer.CloseAll() *)
Close(ds, id) == [ds EXCEPT ![id] = "closed"]

(* ======================== talosconfigForMachines ====================== *)

(* mutant of Dispatch: the length check of line 82 is missing *)
DispatchNoLenCheck(tcp0, ms) ==
  IF ~IsZero(tcp0.InitConfig) THEN "workload" ELSE "direct"

(* lines 82-88: argument check and mode selection *)
Dispatch(tcp0, ms) ==
  IF Len(ms) = 0 THEN "invalid"
  ELSE IF ~IsZero(tcp0.InitConfig) THEN "workload"
  ELSE "direct"

(* lines 87: the cluster key handed to talosconfigFromWorkloadCluster *)
ClusterKey(tcp0) ==
  [Namespace |-> tcp0.Namespace, Name |-> Label(tcp0.Labels, ClusterNameLabel)]

(* mutant of MachineIPs: the address type is not tested *)
MachineIPsAnyType(addresses) == addresses

(* lines 95-99: the addresses of a machine that are appended to addrList *)
MachineIPs(addresses) ==
  SelectSeq(addresses, LAMBDA a : a.Type = MachineExternalIP \/ a.Type = MachineInternalIP)

(* mutant of DirectAddrStep: the check looks at this machine's addresses alone *)
DirectAddrStepPerMachine(machine, al) ==
  [addrList |-> al \o [k \in 1..Len(MachineIPs(machine.Addresses)) |->
                         MachineIPs(machine.Addresses)[k].Address],
   err |-> IF Len(MachineIPs(machine.Addresses)) = 0
             THEN <<Err("NoAddressesFound", machine.Name)>> ELSE <<>>]

(* mutant of DirectAddrStep: the emptiness check of line 101 is missing *)
DirectAddrStepNoCheck(machine, al) ==
  [addrList |-> al \o [k \in 1..Len(MachineIPs(machine.Addresses)) |->
                         MachineIPs(machine.Addresses)[k].Address],
   err |-> <<>>]

(* lines 95-103: append, then the emptiness check on the running list *)
DirectAddrStep(machine, al) ==
  LET al2 == al \o [k \in 1..Len(MachineIPs(machine.Addresses)) |->
                      MachineIPs(machine.Addresses)[k].Address]
  IN [addrList |-> al2,
      err |-> IF Len(al2) = 0 THEN <<Err("NoAddressesFound", machine.Name)>> ELSE <<>>]

(* lines 119-124, 190-195: some owner reference of cfg is (Machine, name) *)
OwnedByMachine(cfg, name) ==
  \E k \in 1..Len(cfg.OwnerReferences) :
    cfg.OwnerReferences[k].Kind = MachineKind /\ cfg.OwnerReferences[k].Name = name

(* lines 117-125: labelled break: the scan stops at the first owned record, *)
(* found points to the range variable, which still holds that record        *)
RECURSIVE ScanDirect(_, _, _)
ScanDirect(items, name, k) ==
  IF k > Len(items) THEN <<>>
  ELSE IF OwnedByMachine(items[k], name) THEN <<items[k]>>
  ELSE ScanDirect(items, name, k + 1)

(* lines 105-135: list, scan, parse (direct mode) *)
DirectCredentialStep(machine, store, listOk) ==
  LET list == <<CallRec("CfgList", machine.Namespace)>>
      items == ListTalosConfigs(store, machine.Namespace)
      hit == ScanDirect(items, machine.Name, 1)
  IN IF ~listOk
       THEN [calls |-> list, err |-> <<Err("IOError", machine.Namespace)>>,
             found |-> <<>>, t |-> <<>>]
     ELSE IF hit = <<>>
       THEN [calls |-> list, err |-> <<Err("CredentialNotFound", machine.Name)>>,
             found |-> <<>>, t |-> <<>>]
     ELSE LET parsed == FromString(hit[1].TalosConfig)
              all == list \o <<CallRec("FromString", hit[1].TalosConfig)>>
          IN IF parsed = <<>>
               THEN [calls |-> all, err |-> <<Err("ParseError", hit[1].Name)>>,
                     found |-> hit, t |-> <<>>]
               ELSE [calls |-> all, err |-> <<>>, found |-> hit, t |-> parsed]

(* ==================== talosconfigFromWorkloadCluster ================== *)

(* mutant of NodeStep: the node Get is issued before the nodeRef check *)
NodeStepGetFirst(machine, getOk) ==
  LET name == IF machine.NodeRef = <<>> THEN "" ELSE machine.NodeRef[1]
      get == <<CallRec("NodeGet", name)>>
      hit == GetNode(name)
  IN IF machine.NodeRef = <<>>
       THEN [calls |-> get, err |-> <<Err("MachineNotJoined", machine.Name)>>, node |-> <<>>]
     ELSE IF ~getOk
       THEN [calls |-> get, err |-> <<Err("IOError", name)>>, node |-> <<>>]
     ELSE IF hit = {}
       THEN [calls |-> get, err |-> <<Err("NotFound", name)>>, node |-> <<>>]
       ELSE [calls |-> get, err |-> <<>>, node |-> <<CHOOSE n \in hit : TRUE>>]

(* lines 157-165: nodeRef check, then the node Get *)
NodeStep(machine, getOk) ==
  IF machine.NodeRef = <<>>
    THEN [calls |-> <<>>, err |-> <<Err("MachineNotJoined", machine.Name)>>, node |-> <<>>]
  ELSE LET get == <<CallRec("NodeGet", machine.NodeRef[1])>>
           hit == GetNode(machine.NodeRef[1])
       IN IF ~getOk
            THEN [calls |-> get, err |-> <<Err("IOError", machine.NodeRef[1])>>, node |-> <<>>]
          ELSE IF hit = {}
            THEN [calls |-> get, err |-> <<Err("NotFound", machine.NodeRef[1])>>, node |-> <<>>]
            ELSE [calls |-> get, err |-> <<>>, node |-> <<CHOOSE n \in hit : TRUE>>]

(* lines 167-171: the addresses of a node that are appended to addrList *)
NodeIPs(addresses) ==
  SelectSeq(addresses, LAMBDA a : a.Type = NodeExternalIP \/ a.Type = NodeInternalIP)

(* lines 167-175: append, then the emptiness check on the running list *)
WorkloadAddrStep(node, al) ==
  LET al2 == al \o [k \in 1..Len(NodeIPs(node.Addresses)) |->
                      NodeIPs(node.Addresses)[k].Address]
  IN [addrList |-> al2,
      err |-> IF Len(al2) = 0 THEN <<Err("NoAddressesFound", node.Name)>> ELSE <<>>]

(* lines 189-196: the inner break leaves the outer loop running.  ptr is     *)
(* what found points to: 0 is nil, otherwise the index of the record whose  *)
(* range variable was addressed.                                            *)
RECURSIVE ScanWorkload(_, _, _, _)
ScanWorkload(items, name, k, ptr) ==
  IF k > Len(items) THEN ptr
  ELSE ScanWorkload(items, name, k + 1, IF OwnedByMachine(items[k], name) THEN k ELSE ptr)

(* The record *found reads after the loop.  One range variable for the whole *)
(* loop (Go before 1.22): it holds the last item listed.  One per iteration *)
(* (Go 1.22 on): it holds the item of the iteration that took its address.  *)
Deref(items, ptr, loopVar) ==
  IF ptr = 0 THEN <<>>
  ELSE IF loopVar = "shared" THEN <<items[Len(items)]>>
  ELSE <<items[ptr]>>

(* lines 177-206: list, scan, parse (indirect mode) *)
WorkloadCredentialStep(machine, store, listOk, loopVar) ==
  LET list == <<CallRec("CfgList", machine.Namespace)>>
      items == ListTalosConfigs(store, machine.Namespace)
      hit == Deref(items, ScanWorkload(items, machine.Name, 1, 0), loopVar)
  IN IF ~listOk
       THEN [calls |-> list, err |-> <<Err("IOError", machine.Namespace)>>,
             found |-> <<>>, t |-> <<>>]
     ELSE IF hit = <<>>
       THEN [calls |-> list, err |-> <<Err("CredentialNotFound", machine.Name)>>,
             found |-> <<>>, t |-> <<>>]
     ELSE LET parsed == FromString(hit[1].TalosConfig)
              all == list \o <<CallRec("FromString", hit[1].TalosConfig)>>
          IN IF parsed = <<>>
               THEN [calls |-> all, err |-> <<Err("ParseError", hit[1].Name)>>,
                     found |-> hit, t |-> <<>>]
               ELSE [calls |-> all, err |-> <<>>, found |-> hit, t |-> parsed]


(* ============================== actions =============================== *)

Init ==
  /\ pc = "idle"
  /\ tcp = IdleTcp
  /\ machines = <<>>
  /\ cfgStore = <<>>
  /\ i = 0
  /\ addrList = <<>>
  /\ t = <<>>
  /\ found = <<>>
  /\ clientset = <<>>
  /\ calls = <<>>
  /\ result = NoResult
  /\ dialers = <<>>
  /\ callerHeld = <<>>

(* lines 81-92: a caller invokes talosconfigForMachines(ctx, tcp, machines...) *)
TalosconfigForMachines ==
  /\ pc = "idle"
  /\ \E tcp0 \in TcpPool, ms \in MachineLists :
       /\ Dispatch(tcp0, ms) = "workload" => Len(dialers) < MaxDialers
       /\ tcp' = tcp0
       /\ machines' = ms
       /\ cfgStore' = <<>>
       /\ addrList' = <<>>
       /\ t' = <<>>
       /\ found' = <<>>
       /\ clientset' = <<>>
       /\ calls' = <<>>
       /\ IF Dispatch(tcp0, ms) = "invalid"
            THEN /\ pc' = "done"
                 /\ i' = 0
                 /\ result' = Err("InvalidArgument", "")
          ELSE IF Dispatch(tcp0, ms) = "workload"
            THEN /\ pc' = "workload"
                 /\ i' = 0
                 /\ result' = NoResult
            ELSE /\ pc' = "direct"
                 /\ i' = 1
                 /\ result' = NoResult
  /\ UNCHANGED <<dialers, callerHeld>>

(* The range-variable semantics a build of the loop at line 189 can have *)
LoopVarSemantics == {"shared", "perIteration"}

(* the range loop moves to the next machine *)
Advance ==
  /\ pc' = pc
  /\ i' = i + 1

(* lines 94-136: one iteration of the direct-mode loop *)
DirectIter ==
  /\ pc = "direct"
  /\ i <= Len(machines)
  /\ LET machine == machines[i]
         a == DirectAddrStep(machine, addrList)
     IN /\ addrList' = a.addrList
        /\ IF a.err # <<>>
             THEN /\ pc' = "done"
                  /\ result' = a.err[1]
                  /\ UNCHANGED <<i, t, found, calls, cfgStore>>
           ELSE IF t # <<>>
             THEN /\ Advance
                  /\ UNCHANGED <<t, found, calls, result, cfgStore>>
           ELSE \E store \in TalosConfigStores, listOk \in BOOLEAN :
                  LET c == DirectCredentialStep(machine, store, listOk)
                  IN /\ cfgStore' = store
                     /\ calls' = calls \o c.calls
                     /\ found' = c.found
                     /\ t' = c.t
                     /\ IF c.err # <<>>
                          THEN /\ pc' = "done"
                               /\ result' = c.err[1]
                               /\ UNCHANGED i
                          ELSE /\ Advance
                               /\ UNCHANGED result
  /\ UNCHANGED <<tcp, machines, clientset, dialers, callerHeld>>

(* lines 138, 209: talosclient.New(ctx, WithEndpoints(addrList...), WithConfig(t)) *)
NewClient(al, cfg, newOk) ==
  [calls |-> <<CallRec("talosclient.New", "")>>,
   result |-> IF newOk THEN ClientOk(al, cfg) ELSE Err("ClientError", "talos")]

(* line 138: the loop is over *)
DirectBuild ==
  /\ pc = "direct"
  /\ i > Len(machines)
  /\ \E newOk \in BOOLEAN :
       /\ calls' = calls \o NewClient(addrList, t, newOk).calls
       /\ result' = NewClient(addrList, t, newOk).result
  /\ pc' = "done"
  /\ UNCHANGED <<tcp, machines, cfgStore, i, addrList, t, found, clientset,
                 dialers, callerHeld>>

(* lines 142-154: entry of talosconfigFromWorkloadCluster *)
TalosconfigFromWorkloadCluster ==
  /\ pc = "workload"
  /\ \E getOk \in BOOLEAN :
       LET k == KubeconfigForCluster(ClusterKey(tcp), getOk)
       IN IF Len(machines) = 0
            THEN /\ pc' = "done"
                 /\ result' = Err("InvalidArgument", "")
                 /\ UNCHANGED <<i, calls, clientset, dialers>>
            ELSE /\ calls' = calls \o k.calls
                 /\ dialers' = IF k.dialer THEN Append(dialers, "open") ELSE dialers
                 /\ IF k.err # <<>>
                      THEN /\ pc' = "done"
                           /\ result' = k.err[1]
                           /\ UNCHANGED <<i, clientset>>
                      ELSE /\ pc' = "indirect"
                           /\ i' = 1
                           /\ clientset' = <<Len(dialers) + 1>>
                           /\ UNCHANGED result
  /\ UNCHANGED <<tcp, machines, cfgStore, addrList, t, found, callerHeld>>

(* lines 156-207: one iteration of the indirect-mode loop *)
IndirectIter ==
  /\ pc = "indirect"
  /\ i <= Len(machines)
  /\ \E getOk \in BOOLEAN :
       LET machine == machines[i]
           n == NodeStep(machine, getOk)
       IN IF n.err # <<>>
            THEN /\ pc' = "done"
                 /\ result' = n.err[1]
                 /\ calls' = calls \o n.calls
                 /\ UNCHANGED <<i, addrList, t, found, cfgStore>>
          ELSE LET a == WorkloadAddrStep(n.node[1], addrList)
               IN /\ addrList' = a.addrList
                  /\ IF a.err # <<>>
                       THEN /\ pc' = "done"
                            /\ result' = a.err[1]
                            /\ calls' = calls \o n.calls
                            /\ UNCHANGED <<i, t, found, cfgStore>>
                     ELSE IF t # <<>>
                       THEN /\ Advance
                            /\ calls' = calls \o n.calls
                            /\ UNCHANGED <<t, found, result, cfgStore>>
                     ELSE \E store \in TalosConfigStores, listOk \in BOOLEAN,
                             loopVar \in LoopVarSemantics :
                            LET c == WorkloadCredentialStep(machine, store, listOk, loopVar)
                            IN /\ cfgStore' = store
                               /\ calls' = calls \o n.calls \o c.calls
                               /\ found' = c.found
                               /\ t' = c.t
                               /\ IF c.err # <<>>
                                    THEN /\ pc' = "done"
                                         /\ result' = c.err[1]
                                         /\ UNCHANGED i
                                    ELSE /\ Advance
                                         /\ UNCHANGED result
  /\ UNCHANGED <<tcp, machines, clientset, dialers, callerHeld>>

(* line 209: the loop is over *)
IndirectBuild ==
  /\ pc = "indirect"
  /\ i > Len(machines)
  /\ \E newOk \in BOOLEAN :
       /\ calls' = calls \o NewClient(addrList, t, newOk).calls
       /\ result' = NewClient(addrList, t, newOk).result
  /\ pc' = "done"
  /\ UNCHANGED <<tcp, machines, cfgStore, i, addrList, t, found, clientset,
                 dialers, callerHeld>>

(* The resolution has returned: its locals, the clientset among them, are gone *)
Return ==
  /\ pc = "done"
  /\ pc' = "idle"
  /\ tcp' = IdleTcp
  /\ machines' = <<>>
  /\ cfgStore' = <<>>
  /\ i' = 0
  /\ addrList' = <<>>
  /\ t' = <<>>
  /\ found' = <<>>
  /\ clientset' = <<>>
  /\ calls' = <<>>
  /\ result' = NoResult
  /\ UNCHANGED <<dialers, callerHeld>>

(* lines 47-78: another part of the reconciler calls kubeconfigForCluster and *)
(* keeps the client it gets                                                  *)
CallerKubeconfigForCluster ==
  /\ pc = "idle"
  /\ callerHeld = <<>>
  /\ Len(dialers) < MaxDialers
  /\ \E tcp0 \in TcpPool, getOk \in BOOLEAN :
       LET k == KubeconfigForCluster(ClusterKey(tcp0), getOk)
       IN /\ dialers' = IF k.dialer THEN Append(dialers, "open") ELSE dialers
          /\ callerHeld' = IF k.err = <<>> THEN <<Len(dialers) + 1>> ELSE <<>>
  /\ UNCHANGED <<pc, tcp, machines, cfgStore, i, addrList, t, found, clientset,
                 calls, result>>

(* lines 35-39: that caller closes its client *)
CallerClose ==
  /\ pc = "idle"
  /\ callerHeld # <<>>
  /\ dialers' = Close(dialers, callerHeld[1])
  /\ callerHeld' = <<>>
  /\ UNCHANGED <<pc, tcp, machines, cfgStore, i, addrList, t, found, clientset,
                 calls, result>>

Next ==
  \/ TalosconfigForMachines
  \/ DirectIter
  \/ DirectBuild
  \/ TalosconfigFromWorkloadCluster
  \/ IndirectIter
  \/ IndirectBuild
  \/ Return
  \/ CallerKubeconfigForCluster
  \/ CallerClose

Spec == Init /\ [][Next]_vars


(* ====================== vocabulary of the properties ================== *)

IPTypes == {"ExternalIP", "InternalIP"}

RECURSIVE IPAddressesOf(_)
IPAddressesOf(records) ==
  IF records = <<>> THEN <<>>
  ELSE (IF Head(records).Type \in IPTypes THEN <<Head(records).Address>> ELSE <<>>)
       \o IPAddressesOf(Tail(records))

RECURSIVE ConcatMachineIPs(_)
ConcatMachineIPs(ms) ==
  IF ms = <<>> THEN <<>>
  ELSE IPAddressesOf(Head(ms).Addresses) \o ConcatMachineIPs(Tail(ms))

InitConfigured == tcp.InitConfig # ZeroInitConfig
Done == pc = "done"
CountOp(op) == Cardinality({ k \in 1..Len(calls) : calls[k].op = op })

(* the address records of the workload-cluster node a machine refers to *)
NodeAddressesOf(machine) ==
  IF machine.NodeRef = <<>> THEN <<>>
  ELSE LET hit == { n \in WorkloadNodes : n.Name = machine.NodeRef[1] }
       IN IF hit = {} THEN <<>> ELSE (CHOOSE n \in hit : TRUE).Addresses

(* the machine has an ExternalIP/InternalIP address in the mode of the resolution *)
HasIP(machine) ==
  IF InitConfigured THEN IPAddressesOf(NodeAddressesOf(machine)) # <<>>
  ELSE IPAddressesOf(machine.Addresses) # <<>>

Unjoined == { k \in 1..Len(machines) : machines[k].NodeRef = <<>> }
FirstUnjoined == CHOOSE k \in Unjoined : \A l \in Unjoined : k <= l

ExactOwner(cfg, name) ==
  \E k \in 1..Len(cfg.OwnerReferences) :
    cfg.OwnerReferences[k] = [Kind |-> "Machine", Name |-> name]

(* the records of the listed store that lie in the namespace, in list order *)
RECURSIVE InNamespace(_, _)
InNamespace(store, namespace) ==
  IF store = <<>> THEN <<>>
  ELSE (IF Head(store).Namespace = namespace THEN <<Head(store)>> ELSE <<>>)
       \o InNamespace(Tail(store), namespace)

ExpectedSecret ==
  [Namespace |-> tcp.Namespace,
   Name |-> (IF ClusterNameLabel \in DOMAIN tcp.Labels THEN tcp.Labels[ClusterNameLabel] ELSE "")
            \o "-kubeconfig"]
SecretAbsent ==
  ~ \E s \in Secrets : s.Namespace = ExpectedSecret.Namespace /\ s.Name = ExpectedSecret.Name

(* ============================== properties ============================ *)

(* C1: direct mode, every machine has an ExternalIP/InternalIP address, the   *)
(* first machine's credential was found and parsed: the client is built, and *)
(* the endpoint list handed to it is non-empty and is exactly the            *)
(* concatenation, machine by machine and record by record, of the            *)
(* ExternalIP/InternalIP addresses: nothing else, nothing dropped, reordered *)
(* or deduplicated.                                                          *)
C1_DirectEndpointsExact ==
  (/\ Done
   /\ ~InitConfigured
   /\ machines # <<>>
   /\ \A k \in 1..Len(machines) : IPAddressesOf(machines[k].Addresses) # <<>>
   /\ found # <<>>
   /\ t # <<>>)
  => /\ CountOp("talosclient.New") = 1
     /\ addrList # <<>>
     /\ addrList = ConcatMachineIPs(machines)
     /\ result.status = "ok" => result.endpoints = ConcatMachineIPs(machines)

(* a client built in direct mode from two machines, one with a Hostname record *)
(* between its IP records, the two sharing an address that is kept twice      *)
C1_Witness ==
  /\ Done
  /\ ~InitConfigured
  /\ result.status = "ok"
  /\ Len(machines) = 2
  /\ \E k \in 1..Len(machines[1].Addresses) : machines[1].Addresses[k].Type = "Hostname"
  /\ Len(result.endpoints) = 3
  /\ result.endpoints[2] = result.endpoints[3]

(* C2 as stated: indirect mode, some machine has no node reference: the      *)
(* resolution fails with MachineNotJoined and has issued no call at all.     *)
C2_NotJoinedBeforeAnyCall ==
  (Done /\ InitConfigured /\ Unjoined # {})
  => /\ result.err = "MachineNotJoined"
     /\ calls = <<>>

(* C2 amended: indirect mode, some machine has no node reference: the        *)
(* resolution never succeeds; unless workload-cluster access or an earlier   *)
(* machine fails first, it fails with MachineNotJoined naming the first such *)
(* machine.  By then the kubeconfig secret Get and the construction of the   *)
(* workload-cluster client have happened, once, and the node Get of every    *)
(* earlier machine; no node Get was issued for the unjoined machine or a     *)
(* later one, and when it is the first machine, no node Get and no           *)
(* credential List at all.                                                   *)
C2_NotJoinedAfterClusterAccess ==
  (Done /\ InitConfigured /\ Unjoined # {})
  => /\ result.status = "err"
     /\ CountOp("NodeGet") <= FirstUnjoined - 1
     /\ result.err # "MachineNotJoined" => i < FirstUnjoined
     /\ result.err = "MachineNotJoined"
          => /\ i = FirstUnjoined
             /\ result.subject = machines[FirstUnjoined].Name
             /\ calls[1].op = "SecretGet"
             /\ CountOp("SecretGet") = 1
             /\ CountOp("newDialer") = 1
             /\ CountOp("NewForConfig") = 1
             /\ CountOp("NodeGet") = FirstUnjoined - 1
             /\ CountOp("CfgList") = (IF FirstUnjoined = 1 THEN 0 ELSE 1)

(* MachineNotJoined raised at the second machine, after the first one's node Get *)
C2_Witness ==
  /\ Done
  /\ InitConfigured
  /\ result.err = "MachineNotJoined"
  /\ i = 2
  /\ CountOp("NodeGet") = 1
  /\ CountOp("SecretGet") = 1

(* C3: when an indirect-mode resolution returns, the workload-cluster client *)
(* it acquired has been released with Close().                               *)
C3_DialerReleasedOnExit ==
  (Done /\ clientset # <<>>) => dialers[clientset[1]] = "closed"

(* C4: the credential record that is parsed lies in the namespace of the     *)
(* machine looked up and has an owner reference (Machine, that machine's     *)
(* name).                                                                    *)
C4_SelectedRecordOwnedByMachine ==
  found # <<>>
  => /\ \E k \in 1..Len(cfgStore) : cfgStore[k] = found[1]
     /\ found[1].Namespace = machines[1].Namespace
     /\ ExactOwner(found[1], machines[1].Name)

(* C5: the record selected is the first one, in list order, owned by the     *)
(* machine, and in either mode it is the record the direct-mode scan selects *)
(* from the same list.                                                       *)
C5_FirstMatchSelected ==
  LET items == InNamespace(cfgStore, machines[1].Namespace)
      owned == { k \in 1..Len(items) : ExactOwner(items[k], machines[1].Name) }
  IN found # <<>>
     => /\ owned # {}
        /\ found[1] = items[CHOOSE k \in owned : \A l \in owned : k <= l]
        /\ found = ScanDirect(items, machines[1].Name, 1)

(* C6 as stated: whenever resolution succeeds, every machine of the list has *)
(* an ExternalIP/InternalIP address (on its node, in indirect mode).         *)
C6_AllMachinesHaveAddresses ==
  (Done /\ result.status = "ok") => \A k \in 1..Len(machines) : HasIP(machines[k])

(* C6 amended: whenever resolution succeeds, the first machine of the list   *)
(* (its node, in indirect mode) has an ExternalIP/InternalIP address and the *)
(* endpoint list is non-empty; NoAddressesFound is raised only at the first  *)
(* machine, when it has no such address, and names it (its node, in indirect *)
(* mode).  A later machine without such an address does not fail the         *)
(* resolution.                                                               *)
C6_FirstMachineHasAddresses ==
  /\ (Done /\ result.status = "ok")
       => /\ HasIP(machines[1])
          /\ result.endpoints # <<>>
  /\ (Done /\ result.err = "NoAddressesFound")
       => /\ i = 1
          /\ ~HasIP(machines[1])
          /\ result.subject = IF InitConfigured THEN machines[1].NodeRef[1]
                              ELSE machines[1].Name

(* a resolution that succeeded although its second machine has no such address *)
C6_Witness ==
  /\ Done
  /\ result.status = "ok"
  /\ Len(machines) = 2
  /\ HasIP(machines[1])
  /\ ~HasIP(machines[2])

(* C7: direct mode, the first machine has no ExternalIP/InternalIP address:  *)
(* the resolution fails with NoAddressesFound naming it, before any          *)
(* credential List (or any other call), before a later machine is looked at, *)
(* and without a client.                                                     *)
C7_FirstMachineWithoutAddressFails ==
  (/\ pc # "idle"
   /\ ~InitConfigured
   /\ machines # <<>>
   /\ IPAddressesOf(machines[1].Addresses) = <<>>)
  => /\ i = 1
     /\ calls = <<>>
     /\ found = <<>>
     /\ Done => result = Err("NoAddressesFound", machines[1].Name)

(* the failure, with a second machine that does have an address *)
C7_Witness ==
  /\ Done
  /\ ~InitConfigured
  /\ Len(machines) = 2
  /\ IPAddressesOf(machines[1].Addresses) = <<>>
  /\ IPAddressesOf(machines[2].Addresses) # <<>>
  /\ result.err = "NoAddressesFound"

(* C8: indirect mode, no secret <cluster name>-kubeconfig in the cluster's   *)
(* namespace: the resolution fails after the secret Get alone: no kubeconfig *)
(* parsing, no dialer, no clientset, no node Get, no credential List; and    *)
(* when the store answered the Get, the error is its NotFound for that key.  *)
C8_MissingSecretStopsResolution ==
  (Done /\ InitConfigured /\ machines # <<>> /\ SecretAbsent)
  => /\ result.status = "err"
     /\ calls = <<CallRec("SecretGet", ExpectedSecret.Namespace \o "/" \o ExpectedSecret.Name)>>
     /\ clientset = <<>>
     /\ result.err \in {"NotFound", "IOError"}
     /\ result.err = "NotFound"
          => result.subject = ExpectedSecret.Namespace \o "/" \o ExpectedSecret.Name

(* NotFound for demo-kubeconfig in ns2, while ns1 and ns3 hold a secret of that name *)
C8_Witness ==
  /\ Done
  /\ InitConfigured
  /\ machines # <<>>
  /\ SecretAbsent
  /\ result = Err("NotFound", "ns2/demo-kubeconfig")

(* C9: for a non-empty machine list the init config alone decides the mode.  *)
(* Non-zero: the resolution is indirect and reads the kubeconfig secret and  *)
(* builds the workload-cluster client once, however many machines there are.*)
(* Zero: it is direct and never reads the secret, builds a workload-cluster  *)
(* client or gets a node.  Nothing is cached: a resolution that succeeds has *)
(* listed and parsed the credential itself.                                  *)
C9_ModeByInitConfig ==
  (pc # "idle" /\ machines # <<>>)
  => /\ InitConfigured
          => /\ pc \in {"workload", "indirect", "done"}
             /\ CountOp("SecretGet") = (IF pc = "workload" THEN 0 ELSE 1)
             /\ CountOp("newDialer") <= 1
             /\ CountOp("NewForConfig") <= 1
             /\ pc = "indirect" => clientset # <<>> /\ CountOp("NewForConfig") = 1
     /\ ~InitConfigured
          => /\ pc \in {"direct", "done"}
             /\ clientset = <<>>
             /\ \A k \in 1..Len(calls) : calls[k].op \in {"CfgList", "FromString", "talosclient.New"}
     /\ result.status = "ok"
          => /\ CountOp("CfgList") = 1
             /\ CountOp("FromString") = 1

(* an indirect resolution of two machines that succeeded with one secret Get *)
C9_Witness ==
  /\ Done
  /\ InitConfigured
  /\ result.status = "ok"
  /\ Len(machines) = 2
  /\ CountOp("NodeGet") = 2
  /\ CountOp("SecretGet") = 1

(* C10: an empty machine list fails with InvalidArgument whatever the init   *)
(* config is, before any call and without a dialer or client.                *)
C10_EmptyMachineListInvalid ==
  (pc # "idle" /\ machines = <<>>)
  => /\ Done
     /\ result = Err("InvalidArgument", "")
     /\ calls = <<>>
     /\ clientset = <<>>

(* the failure with an init config present *)
C10_Witness ==
  /\ Done
  /\ machines = <<>>
  /\ InitConfigured
  /\ result.err = "InvalidArgument"

====
